---- MODULE Spec2Model ----
(***************************************************************************)
(* FaultTolerantCoordinator (src/fault_tolerant_coordinator.py): one       *)
(* collector task, num_workers worker tasks, one monitor task and run(),   *)
(* scheduled cooperatively by one asyncio event loop.  A step of a task    *)
(* runs from one suspension point (an await that really suspends) to the   *)
(* next, so every action below is the code between two suspension points.  *)
(* Queue.put suspends only on a full queue, Queue.get only on an empty     *)
(* one; file and network awaits always suspend.                            *)
(***************************************************************************)
EXTENDS Integers, Sequences, FiniteSets, TLC

\* ---------------------------------------------------------------- bounds
NumWorkers == 2      \* num_workers (25 in the code), scaled down
QueueCap   == 1      \* work_queue maxsize (2000 in the code), scaled down
NumPosts   == 4      \* records the remote listing holds; the last one is old
PageSize   == 2      \* records per listing page (limit=100 in the code)
SaveEvery  == 2      \* worker_process saves every 5 posts, scaled down
MaxFaults  == 1      \* faults of any kind the environment injects in one run
MaxErrors  == 2      \* exceptions of the processing block it injects instead

Workers == 0 .. (NumWorkers - 1)

\* ---------------------------------------------------------------- WorkItem
TargetDate == 1

CreatedUtc(p) == NumPosts - p      \* the listing is newest first

WorkItem(post_id, permalink, created_utc, num_comments, batch_id, item_index) ==
    [post_id |-> post_id, permalink |-> permalink, created_utc |-> created_utc,
     num_comments |-> num_comments, batch_id |-> batch_id, item_index |-> item_index]

None == WorkItem(0, 0, 0, 0, 0, 0)

\* the remote listing: page k holds the posts (k-1)*PageSize+1 .. k*PageSize
NumPages == (NumPosts + PageSize - 1) \div PageSize

PagePosts(k) ==
    [i \in 1 .. (IF k * PageSize <= NumPosts THEN PageSize
                 ELSE NumPosts - (k - 1) * PageSize) |-> (k - 1) * PageSize + i]

\* data['data'].get('after'): the cursor of the next page, 0 when there is none
NextCursor(k) == IF k < NumPages THEN k + 1 ELSE 0

VARIABLES
    work_queue,             \* asyncio.Queue(maxsize): sequence of WorkItems
    is_collecting,
    is_running,
    current_batch_id,
    total_items_collected,
    total_items_processed,
    total_items_failed,
    workers,                \* worker id -> WorkerState, for the ids registered
    hb_stale,               \* worker id -> now - last_heartbeat > heartbeat_timeout
    worker_tasks,           \* worker id -> generation of the task installed
    wpc,                    \* worker id -> where the installed task is suspended
    work_item,              \* worker id -> the task's local work_item / recovery_item
    posts,                  \* worker id -> the task's local worker_data['posts']
    checkpoint,             \* worker id -> content of worker_<id>_checkpoint.json
    data_file,              \* worker id -> posts in data/worker_<id>_..._partial.json
    cpc,                    \* collector: where it is suspended
    after,                  \* collector local: pagination cursor
    item_index,             \* collector local: running item index
    batch_items,            \* collector local: items of the page not yet put
    mpc,                    \* monitor: where it is suspended
    m_w,                    \* monitor: the worker id whose item it is putting
    rpc,                    \* run(): where it is suspended
    gathered,               \* run(): the tasks handed to asyncio.gather
    faults,                 \* faults injected so far
    num_gets,               \* history: completed work_queue.get() calls
    event_puts,             \* history: worker id -> puts of the stuck item since
                            \* the last heartbeat-timeout event of that id
    tally,                  \* history: results appended, failure handlers run,
                            \* failure re-enqueues completed, post ids with a
                            \* result, tasks replaced while still alive
    f_outcomes,             \* fetch_json_with_retry: what attempt i+1 will meet
    f_i,                    \* fetch_json_with_retry: the loop index i
    f_pc,                   \* fetch_json_with_retry: where the call is suspended
    f_sleeps,               \* history: the sleeps the call has performed
    f_result                \* fetch_json_with_retry: what the call returned

shared   == <<work_queue, is_collecting, is_running, current_batch_id,
              total_items_collected, total_items_processed, total_items_failed>>
wvars    == <<workers, hb_stale, worker_tasks, wpc, work_item, posts>>
files    == <<checkpoint, data_file>>
cvars    == <<cpc, after, item_index, batch_items>>
mvars    == <<mpc, m_w>>
rvars    == <<rpc, gathered>>
hist     == <<faults, num_gets, event_puts, tally>>
fvars    == <<f_outcomes, f_i, f_pc, f_sleeps, f_result>>
coord    == <<shared, wvars, files, cvars, mvars, rvars, hist>>
vars     == <<coord, fvars>>

\* ---------------------------------------------------------------- helpers
Range(s) == {s[i] : i \in 1 .. Len(s)}

\* a queue built without maxsize is never full
Full_unbounded(q) == FALSE

\* asyncio.Queue.full() for maxsize > 0
Full(q) == Len(q) >= QueueCap

WorkerState(worker_id) ==
    [worker_id |-> worker_id, status |-> "idle", current_item |-> None,
     items_processed |-> 0, items_failed |-> 0]

\* an id that is not yet a key of self.workers
Unregistered(worker_id) == [WorkerState(worker_id) EXCEPT !.status = "unregistered"]

Registered == {w \in Workers : workers[w].status # "unregistered"}

NoFile  == [kind |-> "absent"]
Corrupt == [kind |-> "truncated"]

\* a checkpoint dict that stores batch_id and item_index under each other's key
asdict_swapped(item) ==
    [post_id |-> item.post_id, permalink |-> item.permalink,
     created_utc |-> item.created_utc, num_comments |-> item.num_comments,
     batch_id |-> item.item_index, item_index |-> item.batch_id]

\* dataclasses.asdict(item)
asdict(item) ==
    [post_id |-> item.post_id, permalink |-> item.permalink,
     created_utc |-> item.created_utc, num_comments |-> item.num_comments,
     batch_id |-> item.batch_id, item_index |-> item.item_index]

\* a checkpoint file that is opened for exclusive creation: it is written only
\* when the worker id has no checkpoint yet
CheckpointOf_stale(worker_id, item, ws) ==
    IF checkpoint[worker_id].kind = "json" THEN checkpoint[worker_id]
    ELSE [kind |-> "json", worker_id |-> worker_id, current_item |-> asdict(item),
          items_processed |-> ws.items_processed]

\* the checkpoint dict save_checkpoint writes (the timestamp is never read)
CheckpointOf(worker_id, item, ws) ==
    [kind |-> "json", worker_id |-> worker_id, current_item |-> asdict(item),
     items_processed |-> ws.items_processed]

\* load_checkpoint: None when the file is absent or does not parse
load_checkpoint(file) ==
    IF file.kind # "json" THEN None
    ELSE WorkItem(file.current_item.post_id, file.current_item.permalink,
                  file.current_item.created_utc, file.current_item.num_comments,
                  file.current_item.batch_id, file.current_item.item_index)

\* a task suspended in work_queue.put on a full queue
PutterWaiting ==
    \/ cpc = "put"
    \/ mpc = "put"
    \/ \E w \in Workers : wpc[w] \in {"recover_put", "requeue"}

Live(pc) == pc \notin {"none", "done", "raised", "cancelled"}

\* run() creates the collector, the workers 0..num_workers-1 and the monitor in
\* that order (lines 448-455), and the event loop runs the first step of each
\* in that order before it handles any timer or I/O completion of theirs
FirstStep(w) == wpc[w] = "start" /\ worker_tasks[w] = 0

Booting == cpc = "start" \/ mpc = "start" \/ \E w \in Workers : FirstStep(w)

\* the environment injects a fault: either up to MaxErrors exceptions of the
\* workers' processing block, or up to MaxFaults faults of any kind
Inject(kind) ==
    /\ IF kind = "error" /\ faults.other + faults.malformed = 0
       THEN faults.error < MaxErrors
       ELSE faults.error + faults.other + faults.malformed < MaxFaults
    /\ faults' = [faults EXCEPT ![kind] = @ + 1]

\* ---------------------------------------------------------------- Init
\* the coordinator after __init__, which creates the checkpoint directory when
\* it is missing and leaves the files of it alone: no task exists yet
InitOver(checkpoints) ==
    /\ work_queue = <<>>
    /\ is_collecting = TRUE
    /\ is_running = TRUE
    /\ current_batch_id = 0
    /\ total_items_collected = 0
    /\ total_items_processed = 0
    /\ total_items_failed = 0
    /\ workers = [w \in Workers |-> Unregistered(w)]
    /\ hb_stale = [w \in Workers |-> FALSE]
    /\ worker_tasks = [w \in Workers |-> 0]
    /\ wpc = [w \in Workers |-> "none"]
    /\ work_item = [w \in Workers |-> None]
    /\ posts = [w \in Workers |-> <<>>]
    /\ checkpoint = checkpoints
    /\ data_file = [w \in Workers |-> <<>>]
    /\ cpc = "none"
    /\ after = 0
    /\ item_index = 0
    /\ batch_items = <<>>
    /\ mpc = "none"
    /\ m_w = 0
    /\ rpc = "init"
    /\ gathered = [w \in Workers |-> 0]
    /\ faults = [error |-> 0, other |-> 0, malformed |-> 0]
    /\ num_gets = 0
    /\ event_puts = [w \in Workers |-> [item |-> None, n |-> 0]]
    /\ tally = [appended |-> 0, handled |-> 0, requeued |-> 0, results |-> {},
                orphans |-> 0]

\* the first job run in a working directory: checkpoints/ is empty
InitCoordinator == InitOver([w \in Workers |-> NoFile])

\* no call of fetch_json_with_retry is followed attempt by attempt
FetchIdle ==
    /\ f_outcomes = <<>>
    /\ f_i = 0
    /\ f_pc = "idle"
    /\ f_sleeps = <<>>
    /\ f_result = "unset"

Init == InitCoordinator /\ FetchIdle

\* ---------------------------------------------------------------- fetch_json_with_retry
retries == 3
backoff == 2

\* what client.get and the lines after it meet in one attempt: a 2xx response
\* that decodes, a 429 response, another error status (raise_for_status raises
\* HTTPStatusError), or any other exception (transport error, undecodable body)
Outcomes == {"ok", "rate_limited", "http_error", "exception"}

\* a wait that grows by one base per attempt
WaitTime_linear(i) == backoff * (i + 1)

\* line 120: wait_time = backoff * (2 ** i)
WaitTime(i) == backoff * (2 ^ i)

\* an attempt whose handler for other exceptions is missing: the exception leaves
\* the helper
Attempt_uncaught(i, outcome) ==
    CASE outcome = "ok" -> [pc |-> "returned", sleep |-> 0, result |-> "json"]
      [] outcome = "rate_limited" ->
            IF i < retries
            THEN [pc |-> "sleep", sleep |-> WaitTime(i), result |-> "unset"]
            ELSE [pc |-> "returned", sleep |-> 0, result |-> "None"]
      [] outcome = "http_error" -> [pc |-> "returned", sleep |-> 0, result |-> "None"]
      [] outcome = "exception" -> [pc |-> "raised", sleep |-> 0, result |-> "unset"]

\* lines 115-145, one pass of the loop body with index i: where the call is next
\* (suspended in a sleep, or returned), the sleep it starts and what it returns
Attempt(i, outcome) ==
    CASE outcome = "ok" -> [pc |-> "returned", sleep |-> 0, result |-> "json"]
      [] outcome = "rate_limited" ->
            IF i < retries
            THEN [pc |-> "sleep", sleep |-> WaitTime(i), result |-> "unset"]
            ELSE [pc |-> "returned", sleep |-> 0, result |-> "None"]
      [] outcome = "http_error" -> [pc |-> "returned", sleep |-> 0, result |-> "None"]
      [] outcome = "exception" ->
            IF i < retries
            THEN [pc |-> "sleep", sleep |-> 1, result |-> "unset"]
            ELSE [pc |-> "returned", sleep |-> 0, result |-> "None"]

\* a call of fetch_json_with_retry with the default retries, suspended in the
\* client.get of its first attempt, for every sequence of outcomes
InitFetch ==
    /\ InitCoordinator
    /\ f_outcomes \in [1 .. (retries + 1) -> Outcomes]
    /\ f_i = 0
    /\ f_pc = "request"
    /\ f_sleeps = <<>>
    /\ f_result = "unset"

\* line 116 completes and the loop body runs to its next suspension or return
FetchResponse ==
    /\ f_pc = "request"
    /\ LET r == Attempt(f_i, f_outcomes[f_i + 1]) IN
       /\ f_pc' = r.pc
       /\ f_result' = r.result
       /\ f_sleeps' = IF r.pc = "sleep" THEN Append(f_sleeps, r.sleep) ELSE f_sleeps
    /\ UNCHANGED <<f_outcomes, f_i>>
    /\ UNCHANGED coord

\* the sleep of line 122, 136 or 143 ends: `continue` takes the next index of
\* range(retries + 1), and line 146 returns None when there is none
FetchWake ==
    /\ f_pc = "sleep"
    /\ IF f_i < retries
       THEN f_i' = f_i + 1 /\ f_pc' = "request" /\ f_result' = f_result
       ELSE f_i' = f_i /\ f_pc' = "returned" /\ f_result' = "None"
    /\ UNCHANGED <<f_outcomes, f_sleeps>>
    /\ UNCHANGED coord

NextFetch ==
    \/ FetchResponse
    \/ FetchWake

SpecFetch == InitFetch /\ [][NextFetch]_vars

\* ---------------------------------------------------------------- collector
\* a loop that skips an old record with `continue` and goes on with the page
NewPrefix_filter(ps) ==
    LET New(p) == CreatedUtc(p) >= TargetDate IN SelectSeq(ps, New)

\* the records of a page that precede the first one older than the target date
RECURSIVE NewPrefix(_)
NewPrefix(ps) ==
    IF ps = <<>> \/ CreatedUtc(Head(ps)) < TargetDate THEN <<>>
    ELSE <<Head(ps)>> \o NewPrefix(Tail(ps))

\* lines 182-201: the WorkItems built from a page
BatchOf(ps, batch_id, index) ==
    [i \in 1 .. Len(NewPrefix(ps)) |->
        WorkItem(ps[i], ps[i], CreatedUtc(ps[i]), 0, batch_id, index + i - 1)]

\* put_nowait in place of put: the whole batch goes on the queue at once
PutWhileRoom_nowait(q, batch) == [q |-> q \o batch, rest |-> <<>>]

\* put after put until the queue is full: put suspends only then
RECURSIVE PutWhileRoom(_, _)
PutWhileRoom(q, batch) ==
    IF batch = <<>> \/ Full(q) THEN [q |-> q, rest |-> batch]
    ELSE PutWhileRoom(Append(q, Head(batch)), Tail(batch))

\* the top of the collector's while loop (line 158) and the exit (line 224)
CollectorLoop(ic) ==
    IF ic /\ is_running
    THEN cpc' = "fetch" /\ is_collecting' = ic
    ELSE cpc' = "done" /\ is_collecting' = FALSE

\* a collector that sets is_collecting again when it has put its last batch
CollectorPut_rearm(batch, ic, cursor) ==
    LET r == PutWhileRoom(work_queue, batch) IN
    /\ work_queue' = r.q
    /\ total_items_collected' = total_items_collected + (Len(batch) - Len(r.rest))
    /\ batch_items' = r.rest
    /\ IF r.rest # <<>>
       THEN /\ cpc' = "put"
            /\ is_collecting' = ic
            /\ current_batch_id' = current_batch_id
       ELSE /\ current_batch_id' = current_batch_id + 1
            /\ IF cursor = 0 \/ ~ic
               THEN cpc' = "done" /\ is_collecting' = TRUE
               ELSE cpc' = "sleep" /\ is_collecting' = ic

\* lines 203-218: put the batch, then advance the batch id and decide to go on
CollectorPut(batch, ic, cursor) ==
    LET r == PutWhileRoom(work_queue, batch) IN
    /\ work_queue' = r.q
    /\ total_items_collected' = total_items_collected + (Len(batch) - Len(r.rest))
    /\ batch_items' = r.rest
    /\ IF r.rest # <<>>
       THEN /\ cpc' = "put"
            /\ is_collecting' = ic
            /\ current_batch_id' = current_batch_id
       ELSE /\ current_batch_id' = current_batch_id + 1
            /\ IF cursor = 0 \/ ~ic
               THEN cpc' = "done" /\ is_collecting' = FALSE
               ELSE cpc' = "sleep" /\ is_collecting' = ic

CollectorStart ==
    /\ cpc = "start"
    /\ CollectorLoop(is_collecting)
    /\ UNCHANGED <<work_queue, is_running, current_batch_id, total_items_collected,
                   total_items_processed, total_items_failed>>
    /\ UNCHANGED <<wvars, files, after, item_index, batch_items, mvars, rvars, hist>>
    /\ UNCHANGED fvars

\* the sleep after a page, a failed fetch or an exception ends
CollectorWake ==
    /\ cpc = "sleep"
    /\ ~Booting
    /\ CollectorLoop(is_collecting)
    /\ UNCHANGED <<work_queue, is_running, current_batch_id, total_items_collected,
                   total_items_processed, total_items_failed>>
    /\ UNCHANGED <<wvars, files, after, item_index, batch_items, mvars, rvars, hist>>
    /\ UNCHANGED fvars

\* fetch_json_with_retry returned a well-formed page
CollectorFetched ==
    /\ cpc = "fetch"
    /\ ~Booting
    /\ LET page == IF after = 0 THEN 1 ELSE after
           ps == PagePosts(page)
           batch == BatchOf(ps, current_batch_id, item_index)
           ic == is_collecting /\ Len(batch) = Len(ps)
       IN /\ after' = NextCursor(page)
          /\ item_index' = item_index + Len(batch)
          /\ CollectorPut(batch, ic, NextCursor(page))
    /\ UNCHANGED <<is_running, total_items_processed, total_items_failed>>
    /\ UNCHANGED <<wvars, files, mvars, rvars, hist>>
    /\ UNCHANGED fvars

\* fetch_json_with_retry gave up and returned None (lines 166-169)
CollectorFetchFailed ==
    /\ cpc = "fetch"
    /\ ~Booting
    /\ Inject("other")
    /\ cpc' = "sleep"
    /\ UNCHANGED <<shared, wvars, files, after, item_index, batch_items, mvars, rvars,
                   num_gets, event_puts>>
    /\ UNCHANGED tally
    /\ UNCHANGED fvars

\* a malformed response that ends the task at once, without the line after the
\* loop that clears is_collecting
CollectorMalformed_return ==
    /\ cpc = "fetch"
    /\ ~Booting
    /\ Inject("malformed")
    /\ cpc' = "done"
    /\ UNCHANGED <<shared, wvars, files, after, item_index, batch_items, mvars, rvars,
                   num_gets, event_puts>>
    /\ UNCHANGED tally
    /\ UNCHANGED fvars

\* the response has no data.children (lines 171-173): break
CollectorMalformed ==
    /\ cpc = "fetch"
    /\ ~Booting
    /\ Inject("malformed")
    /\ cpc' = "done"
    /\ is_collecting' = FALSE
    /\ UNCHANGED <<work_queue, is_running, current_batch_id, total_items_collected,
                   total_items_processed, total_items_failed>>
    /\ UNCHANGED <<wvars, files, after, item_index, batch_items, mvars, rvars,
                   num_gets, event_puts>>
    /\ UNCHANGED tally
    /\ UNCHANGED fvars

\* a record of the page lacks a key: the exception of lines 184-198 is caught at
\* line 220 after line 176 has already advanced the cursor
CollectorPageError ==
    /\ cpc = "fetch"
    /\ ~Booting
    /\ Inject("other")
    /\ after' = NextCursor(IF after = 0 THEN 1 ELSE after)
    /\ cpc' = "sleep"
    /\ UNCHANGED <<shared, wvars, files, item_index, batch_items, mvars, rvars,
                   num_gets, event_puts>>
    /\ UNCHANGED tally
    /\ UNCHANGED fvars

\* the put of line 205 resumes once the queue has room
CollectorPutResume ==
    /\ cpc = "put"
    /\ ~Booting
    /\ ~Full(work_queue)
    /\ CollectorPut(batch_items, is_collecting, after)
    /\ UNCHANGED <<is_running, total_items_processed, total_items_failed>>
    /\ UNCHANGED <<wvars, files, after, item_index, mvars, rvars, hist>>
    /\ UNCHANGED fvars

Collector ==
    \/ CollectorStart
    \/ CollectorWake
    \/ CollectorFetched
    \/ CollectorFetchFailed
    \/ CollectorMalformed
    \/ CollectorPageError
    \/ CollectorPutResume

\* ---------------------------------------------------------------- worker
\* a loop that also ends as soon as collection has finished, items queued or not
WorkerLoop_quit(w, q, ws) ==
    IF ~is_running \/ ~is_collecting
    THEN [pc |-> "final", q |-> q, ws |-> ws, item |-> None, gets |-> 0]
    ELSE IF q # <<>>
    THEN [pc |-> "ckpt", q |-> Tail(q),
          ws |-> [ws EXCEPT !.status = "working", !.current_item = Head(q)],
          item |-> Head(q), gets |-> 1]
    ELSE [pc |-> "get", q |-> q, ws |-> ws, item |-> None, gets |-> 0]

\* lines 251-272 from the top of the while loop to the next suspension: the loop
\* test, the heartbeat, then the get; with an item at hand the worker registers
\* it and suspends in save_checkpoint, with none it suspends in get, and with
\* is_running false it leaves the loop and suspends in the final save
WorkerLoop(w, q, ws) ==
    IF ~is_running
    THEN [pc |-> "final", q |-> q, ws |-> ws, item |-> None, gets |-> 0]
    ELSE IF q # <<>>
    THEN [pc |-> "ckpt", q |-> Tail(q),
          ws |-> [ws EXCEPT !.status = "working", !.current_item = Head(q)],
          item |-> Head(q), gets |-> 1]
    ELSE [pc |-> "get", q |-> q, ws |-> ws, item |-> None, gets |-> 0]

\* the task of worker w goes round the loop, from queue q and WorkerState ws
Continue(w, q, ws) ==
    LET r == WorkerLoop(w, q, ws) IN
    /\ work_queue' = r.q
    /\ workers' = [workers EXCEPT ![w] = r.ws]
    /\ wpc' = [wpc EXCEPT ![w] = r.pc]
    /\ work_item' = [work_item EXCEPT ![w] = r.item]
    /\ num_gets' = num_gets + r.gets
    /\ hb_stale' = [hb_stale EXCEPT ![w] = IF is_running THEN FALSE ELSE @]

\* the recovery put of line 241 counts for the timeout event of w when it puts
\* the item the timed-out worker held
CountPut(w, item) ==
    [event_puts EXCEPT ![w] = IF @.item = item /\ item # None
                              THEN [@ EXCEPT !.n = @ + 1] ELSE @]

\* lines 231-238: the task's first step registers a fresh WorkerState; with no
\* checkpoint file load_checkpoint returns at once and the loop starts
WorkerStart(w) ==
    /\ wpc[w] = "start"
    /\ FirstStep(w) => (cpc # "start" /\ \A v \in 0 .. (w - 1) : ~FirstStep(v))
    /\ ~FirstStep(w) => ~Booting
    /\ IF checkpoint[w] = NoFile
       THEN /\ LET r == WorkerLoop(w, work_queue, WorkerState(w)) IN
               /\ work_queue' = r.q
               /\ workers' = [workers EXCEPT ![w] = r.ws]
               /\ wpc' = [wpc EXCEPT ![w] = r.pc]
               /\ work_item' = [work_item EXCEPT ![w] = r.item]
               /\ num_gets' = num_gets + r.gets
            /\ hb_stale' = [hb_stale EXCEPT ![w] = FALSE]
       ELSE /\ workers' = [workers EXCEPT ![w] = WorkerState(w)]
            /\ hb_stale' = [hb_stale EXCEPT ![w] = FALSE]
            /\ wpc' = [wpc EXCEPT ![w] = "load"]
            /\ UNCHANGED <<work_queue, work_item, num_gets>>
    /\ UNCHANGED <<is_collecting, is_running, current_batch_id, total_items_collected,
                   total_items_processed, total_items_failed>>
    /\ UNCHANGED <<worker_tasks, posts, files, cvars, mvars, rvars, faults, event_puts>>
    /\ UNCHANGED tally
    /\ UNCHANGED fvars

\* lines 238-241: the checkpoint file has been read; a recovered item is put back
WorkerLoaded(w) ==
    /\ wpc[w] = "load"
    /\ ~Booting
    /\ LET item == load_checkpoint(checkpoint[w]) IN
       IF item = None
       THEN /\ Continue(w, work_queue, workers[w])
            /\ UNCHANGED event_puts
       ELSE IF Full(work_queue)
       THEN /\ wpc' = [wpc EXCEPT ![w] = "recover_put"]
            /\ work_item' = [work_item EXCEPT ![w] = item]
            /\ UNCHANGED <<work_queue, workers, hb_stale, num_gets, event_puts>>
       ELSE /\ Continue(w, Append(work_queue, item), workers[w])
            /\ event_puts' = CountPut(w, item)
    /\ UNCHANGED <<is_collecting, is_running, current_batch_id, total_items_collected,
                   total_items_processed, total_items_failed>>
    /\ UNCHANGED <<worker_tasks, posts, files, cvars, mvars, rvars, faults>>
    /\ UNCHANGED tally
    /\ UNCHANGED fvars

\* the recovery put of line 241 resumes once the queue has room
WorkerRecoverPut(w) ==
    /\ wpc[w] = "recover_put"
    /\ ~Booting
    /\ ~Full(work_queue)
    /\ Continue(w, Append(work_queue, work_item[w]), workers[w])
    /\ event_puts' = CountPut(w, work_item[w])
    /\ UNCHANGED <<is_collecting, is_running, current_batch_id, total_items_collected,
                   total_items_processed, total_items_failed>>
    /\ UNCHANGED <<worker_tasks, posts, files, cvars, mvars, rvars, faults>>
    /\ UNCHANGED tally
    /\ UNCHANGED fvars

\* a sleep of the loop (line 294, 302 or 310) ends
WorkerWake(w) ==
    /\ wpc[w] = "sleep"
    /\ ~Booting
    /\ Continue(w, work_queue, workers[w])
    /\ UNCHANGED <<is_collecting, is_running, current_batch_id, total_items_collected,
                   total_items_processed, total_items_failed>>
    /\ UNCHANGED <<worker_tasks, posts, files, cvars, mvars, rvars, faults, event_puts>>
    /\ UNCHANGED tally
    /\ UNCHANGED fvars

\* lines 258-272: the get the worker is suspended in delivers an item
WorkerGet(w) ==
    /\ wpc[w] = "get"
    /\ ~Booting
    /\ work_queue # <<>>
    /\ work_queue' = Tail(work_queue)
    /\ workers' = [workers EXCEPT ![w].status = "working",
                                  ![w].current_item = Head(work_queue)]
    /\ work_item' = [work_item EXCEPT ![w] = Head(work_queue)]
    /\ wpc' = [wpc EXCEPT ![w] = "ckpt"]
    /\ num_gets' = num_gets + 1
    /\ UNCHANGED <<is_collecting, is_running, current_batch_id, total_items_collected,
                   total_items_processed, total_items_failed>>
    /\ UNCHANGED <<hb_stale, worker_tasks, posts, files, cvars, mvars, rvars, faults,
                   event_puts>>
    /\ UNCHANGED tally
    /\ UNCHANGED fvars

\* lines 262-265: the get timed out after 5 s of an empty queue, which no task
\* that only waits for room in the queue can outlast; the step that finds
\* collection unfinished changes nothing but the heartbeat and is left out
WorkerGetTimeout(w) ==
    /\ wpc[w] = "get"
    /\ ~Booting
    /\ work_queue = <<>>
    /\ ~PutterWaiting
    /\ ~is_collecting \/ ~is_running
    /\ wpc' = [wpc EXCEPT ![w] = "final"]
    /\ UNCHANGED <<shared, workers, hb_stale, worker_tasks, work_item, posts, files,
                   cvars, mvars, rvars, hist>>
    /\ UNCHANGED fvars

\* line 272 returned: the checkpoint is written and fetch_post_details begins
WorkerCheckpointed(w) ==
    /\ wpc[w] = "ckpt"
    /\ ~Booting
    /\ checkpoint' = [checkpoint EXCEPT ![w] = CheckpointOf(w, work_item[w], workers[w])]
    /\ wpc' = [wpc EXCEPT ![w] = "fetch"]
    /\ UNCHANGED <<shared, workers, hb_stale, worker_tasks, work_item, posts, data_file,
                   cvars, mvars, rvars, hist>>
    /\ UNCHANGED fvars

\* a loop without the handler of lines 307-310: the exception of line 272 ends
\* the task
WorkerCheckpointError_fatal(w) ==
    /\ wpc[w] = "ckpt"
    /\ ~Booting
    /\ Inject("other")
    /\ \E file \in {checkpoint[w], Corrupt} :
          checkpoint' = [checkpoint EXCEPT ![w] = file]
    /\ work_item' = [work_item EXCEPT ![w] = None]
    /\ wpc' = [wpc EXCEPT ![w] = "raised"]
    /\ UNCHANGED <<shared, workers, hb_stale, worker_tasks, posts, data_file, cvars,
                   mvars, rvars, num_gets, event_puts>>
    /\ UNCHANGED tally
    /\ UNCHANGED fvars

\* line 272 raised (the file could not be opened or written): the handler of
\* lines 307-310 marks the worker failed and sleeps; the file keeps its content
\* or is left truncated
WorkerCheckpointError(w) ==
    /\ wpc[w] = "ckpt"
    /\ ~Booting
    /\ Inject("other")
    /\ \E file \in {checkpoint[w], Corrupt} :
          checkpoint' = [checkpoint EXCEPT ![w] = file]
    /\ workers' = [workers EXCEPT ![w].status = "failed"]
    /\ work_item' = [work_item EXCEPT ![w] = None]
    /\ wpc' = [wpc EXCEPT ![w] = "sleep"]
    /\ UNCHANGED <<shared, hb_stale, worker_tasks, posts, data_file, cvars, mvars,
                   rvars, num_gets, event_puts>>
    /\ UNCHANGED tally
    /\ UNCHANGED fvars

\* lines 298-302: the item is done with
WorkerIdle(w, ws) ==
    [ws EXCEPT !.current_item = None, !.status = "idle"]

\* lines 276-285: fetch_post_details returned a result
WorkerFetched(w) ==
    /\ wpc[w] = "fetch"
    /\ ~Booting
    /\ LET ps == Append(posts[w], work_item[w].post_id)
           ws == [workers[w] EXCEPT !.items_processed = @ + 1]
       IN /\ posts' = [posts EXCEPT ![w] = ps]
          /\ total_items_processed' = total_items_processed + 1
          /\ tally' = [tally EXCEPT !.appended = @ + 1,
                                    !.results = @ \cup {work_item[w].post_id}]
          /\ IF Len(ps) % SaveEvery = 0
             THEN /\ workers' = [workers EXCEPT ![w] = ws]
                  /\ wpc' = [wpc EXCEPT ![w] = "save"]
                  /\ UNCHANGED work_item
             ELSE /\ workers' = [workers EXCEPT ![w] = WorkerIdle(w, ws)]
                  /\ wpc' = [wpc EXCEPT ![w] = "sleep"]
                  /\ work_item' = [work_item EXCEPT ![w] = None]
    /\ UNCHANGED <<work_queue, is_collecting, is_running, current_batch_id,
                   total_items_collected, total_items_failed>>
    /\ UNCHANGED <<hb_stale, worker_tasks, files, cvars, mvars, rvars, faults, num_gets,
                   event_puts>>
    /\ UNCHANGED fvars

\* lines 322-323 and 278: fetch_json_with_retry gave up, fetch_post_details
\* returned None and the worker goes on to lines 298-302
WorkerFetchNone(w) ==
    /\ wpc[w] = "fetch"
    /\ ~Booting
    /\ Inject("other")
    /\ workers' = [workers EXCEPT ![w] = WorkerIdle(w, @)]
    /\ work_item' = [work_item EXCEPT ![w] = None]
    /\ wpc' = [wpc EXCEPT ![w] = "sleep"]
    /\ UNCHANGED <<shared, hb_stale, worker_tasks, posts, files, cvars, mvars, rvars,
                   num_gets, event_puts>>
    /\ UNCHANGED tally
    /\ UNCHANGED fvars

\* a handler that counts the failure in the aggregate only after the put: the
\* update is lost when the put suspends
Requeue_late(w) ==
    /\ workers' = [workers EXCEPT ![w].items_failed = @ + 1]
    /\ IF Full(work_queue)
       THEN /\ wpc' = [wpc EXCEPT ![w] = "requeue"]
            /\ tally' = [tally EXCEPT !.handled = @ + 1]
            /\ UNCHANGED <<work_queue, work_item, total_items_failed>>
       ELSE /\ work_queue' = Append(work_queue, work_item[w])
            /\ total_items_failed' = total_items_failed + 1
            /\ tally' = [tally EXCEPT !.handled = @ + 1, !.requeued = @ + 1]
            /\ work_item' = [work_item EXCEPT ![w] = None]
            /\ wpc' = [wpc EXCEPT ![w] = "sleep"]

\* lines 287-295: the handler of an exception of the processing block counts a
\* failure and puts the item back, suspending in the put when the queue is full
Requeue(w) ==
    /\ workers' = [workers EXCEPT ![w].items_failed = @ + 1]
    /\ total_items_failed' = total_items_failed + 1
    /\ IF Full(work_queue)
       THEN /\ wpc' = [wpc EXCEPT ![w] = "requeue"]
            /\ tally' = [tally EXCEPT !.handled = @ + 1]
            /\ UNCHANGED <<work_queue, work_item>>
       ELSE /\ work_queue' = Append(work_queue, work_item[w])
            /\ tally' = [tally EXCEPT !.handled = @ + 1, !.requeued = @ + 1]
            /\ work_item' = [work_item EXCEPT ![w] = None]
            /\ wpc' = [wpc EXCEPT ![w] = "sleep"]

\* line 325: fetch_post_details raised on a response of an unexpected shape
WorkerFetchError(w) ==
    /\ wpc[w] = "fetch"
    /\ ~Booting
    /\ Inject("error")
    /\ Requeue(w)
    /\ UNCHANGED <<is_collecting, is_running, current_batch_id, total_items_collected,
                   total_items_processed>>
    /\ UNCHANGED <<hb_stale, worker_tasks, posts, files, cvars, mvars, rvars,
                   num_gets, event_puts>>
    /\ UNCHANGED fvars

\* line 285 returned: the partial results are on disk
WorkerSaved(w) ==
    /\ wpc[w] = "save"
    /\ ~Booting
    /\ data_file' = [data_file EXCEPT ![w] = posts[w]]
    /\ workers' = [workers EXCEPT ![w] = WorkerIdle(w, @)]
    /\ work_item' = [work_item EXCEPT ![w] = None]
    /\ wpc' = [wpc EXCEPT ![w] = "sleep"]
    /\ UNCHANGED <<shared, hb_stale, worker_tasks, posts, checkpoint, cvars, mvars,
                   rvars, hist>>
    /\ UNCHANGED fvars

\* line 285 raised: the same handler runs with the result already in posts
WorkerSaveError(w) ==
    /\ wpc[w] = "save"
    /\ ~Booting
    /\ Inject("error")
    /\ Requeue(w)
    /\ UNCHANGED <<is_collecting, is_running, current_batch_id, total_items_collected,
                   total_items_processed>>
    /\ UNCHANGED <<hb_stale, worker_tasks, posts, files, cvars, mvars, rvars,
                   num_gets, event_puts>>
    /\ UNCHANGED fvars

\* the put of line 293 resumes once the queue has room
WorkerRequeued(w) ==
    /\ wpc[w] = "requeue"
    /\ ~Booting
    /\ ~Full(work_queue)
    /\ work_queue' = Append(work_queue, work_item[w])
    /\ work_item' = [work_item EXCEPT ![w] = None]
    /\ wpc' = [wpc EXCEPT ![w] = "sleep"]
    /\ tally' = [tally EXCEPT !.requeued = @ + 1]
    /\ UNCHANGED <<is_collecting, is_running, current_batch_id, total_items_collected,
                   total_items_processed, total_items_failed>>
    /\ UNCHANGED <<workers, hb_stale, worker_tasks, posts, files, cvars, mvars, rvars,
                   faults, num_gets, event_puts>>
    /\ UNCHANGED fvars

\* lines 313-314: the final save returned
WorkerFinalSaved(w) ==
    /\ wpc[w] = "final"
    /\ ~Booting
    /\ data_file' = [data_file EXCEPT ![w] = posts[w]]
    /\ workers' = [workers EXCEPT ![w].status = "completed"]
    /\ wpc' = [wpc EXCEPT ![w] = "done"]
    /\ UNCHANGED <<shared, hb_stale, worker_tasks, work_item, posts, checkpoint, cvars,
                   mvars, rvars, hist>>
    /\ UNCHANGED fvars

\* line 313 raised (the data file could not be opened or written): the task ends
\* with that exception, outside the try of the loop; the file keeps its content
\* or is left truncated
WorkerFinalSaveError(w) ==
    /\ wpc[w] = "final"
    /\ ~Booting
    /\ Inject("other")
    /\ \E file \in {data_file[w], <<>>} :
          data_file' = [data_file EXCEPT ![w] = file]
    /\ wpc' = [wpc EXCEPT ![w] = "raised"]
    /\ UNCHANGED <<shared, workers, hb_stale, worker_tasks, work_item, posts, checkpoint,
                   cvars, mvars, rvars, num_gets, event_puts>>
    /\ UNCHANGED tally
    /\ UNCHANGED fvars

\* more than heartbeat_timeout passes since the heartbeat of line 254 while the
\* worker is inside one iteration (checkpoint write, fetch with its retries and
\* backoff sleeps, save, put on a full queue, the sleep of line 294)
HeartbeatTimeout(w) ==
    /\ wpc[w] \in {"ckpt", "fetch", "save", "requeue", "sleep"}
    /\ ~Booting
    /\ workers[w].status = "working"
    /\ ~hb_stale[w]
    /\ Inject("other")
    /\ hb_stale' = [hb_stale EXCEPT ![w] = TRUE]
    /\ UNCHANGED <<shared, workers, worker_tasks, wpc, work_item, posts, files, cvars,
                   mvars, rvars, num_gets, event_puts>>
    /\ UNCHANGED tally
    /\ UNCHANGED fvars

Worker(w) ==
    \/ WorkerStart(w)
    \/ WorkerLoaded(w)
    \/ WorkerRecoverPut(w)
    \/ WorkerWake(w)
    \/ WorkerGet(w)
    \/ WorkerGetTimeout(w)
    \/ WorkerCheckpointed(w)
    \/ WorkerCheckpointError(w)
    \/ WorkerFetched(w)
    \/ WorkerFetchNone(w)
    \/ WorkerFetchError(w)
    \/ WorkerSaved(w)
    \/ WorkerSaveError(w)
    \/ WorkerRequeued(w)
    \/ WorkerFinalSaved(w)
    \/ WorkerFinalSaveError(w)

\* ---------------------------------------------------------------- monitor
\* the loop test of line 392
MonitorGoesOn(q, ws) ==
    /\ is_running
    /\ \/ is_collecting
       \/ q # <<>>
       \/ \E w \in Workers : ws[w].status = "working"

\* what a pass of the monitor's for loop reads and writes
MonitorView ==
    [q |-> work_queue, ws |-> workers, tasks |-> worker_tasks, pc |-> wpc,
     item |-> work_item, posts |-> posts, ev |-> event_puts, blocked |-> -1,
     orphans |-> tally.orphans]

\* a cancellation the task swallows (a handler that catches CancelledError and
\* goes on with the loop)
Cancel_ignored(st, w) == st

\* line 409: Task.cancel() ends a task that has not finished at its next step,
\* which a CancelledError makes its last (lines 304-306): its locals are gone
Cancel(st, w) ==
    IF Live(st.pc[w])
    THEN [st EXCEPT !.pc[w] = "cancelled", !.item[w] = None, !.posts[w] = <<>>]
    ELSE st

\* lines 413-414: the put of the stuck item has completed
MonitorPut(st, w) ==
    [st EXCEPT !.q = Append(@, st.ws[w].current_item), !.ev[w].n = @ + 1]

\* lines 416-421: reset the WorkerState and install a new task for the same id
Restart(st, w) ==
    [st EXCEPT !.ws[w].status = "idle", !.ws[w].current_item = None,
               !.tasks[w] = @ + 1, !.pc[w] = "start",
               !.orphans = @ + IF Live(st.pc[w]) THEN 1 ELSE 0]

\* a pass that installs the new task without cancelling the one it replaces
RECURSIVE Scan_nocancel(_, _)
Scan_nocancel(st, w) ==
    IF w >= NumWorkers THEN st
    ELSE IF st.ws[w].status = "working" /\ hb_stale[w]
    THEN LET c == [st EXCEPT !.ev[w] = [item |-> st.ws[w].current_item, n |-> 0]] IN
         IF c.ws[w].current_item = None THEN Scan_nocancel(Restart(c, w), w + 1)
         ELSE IF Full(c.q) THEN [c EXCEPT !.blocked = w]
         ELSE Scan_nocancel(Restart(MonitorPut(c, w), w), w + 1)
    ELSE Scan_nocancel(st, w + 1)

\* lines 400-421 for the worker ids w, w+1, ...: the loop body runs without
\* suspending unless the put of line 413 finds the queue full
RECURSIVE Scan(_, _)
Scan(st, w) ==
    IF w >= NumWorkers THEN st
    ELSE IF st.ws[w].status = "working" /\ hb_stale[w]
    THEN LET c == [Cancel(st, w) EXCEPT
                      !.ev[w] = [item |-> st.ws[w].current_item, n |-> 0]] IN
         IF c.ws[w].current_item = None THEN Scan(Restart(c, w), w + 1)
         ELSE IF Full(c.q) THEN [c EXCEPT !.blocked = w]
         ELSE Scan(Restart(MonitorPut(c, w), w), w + 1)
    ELSE Scan(st, w + 1)

\* a task cancelled while save_checkpoint is writing leaves the file as it was,
\* truncated (the file is opened with mode 'w' before it is written) or written
\* (the write that the executor thread has begun is not interrupted)
CancelledFiles(pc) ==
    LET hit == {w \in Workers : wpc[w] = "ckpt" /\ pc[w] # "ckpt"}
        written(w) == CheckpointOf(w, work_item[w], workers[w])
    IN {f \in [Workers -> {checkpoint[w] : w \in Workers} \cup {Corrupt}
                              \cup {written(w) : w \in hit}] :
           \A w \in Workers :
              IF w \in hit THEN f[w] \in {checkpoint[w], Corrupt, written(w)}
              ELSE f[w] = checkpoint[w]}

\* the monitor's pass ended in st: it is suspended in the put, or it has sent its
\* statistics and is back at the loop test of line 392
MonitorAfter(st) ==
    /\ work_queue' = st.q
    /\ workers' = st.ws
    /\ worker_tasks' = st.tasks
    /\ wpc' = st.pc
    /\ work_item' = st.item
    /\ posts' = st.posts
    /\ event_puts' = st.ev
    /\ tally' = [tally EXCEPT !.orphans = st.orphans]
    /\ checkpoint' \in CancelledFiles(st.pc)
    /\ IF st.blocked >= 0
       THEN mpc' = "put" /\ m_w' = st.blocked
       ELSE /\ mpc' = IF MonitorGoesOn(st.q, st.ws) THEN "sleep" ELSE "done"
            /\ m_w' = 0

MonitorStart ==
    /\ mpc = "start"
    /\ cpc # "start" /\ \A w \in Workers : ~FirstStep(w)
    /\ mpc' = IF MonitorGoesOn(work_queue, workers) THEN "sleep" ELSE "done"
    /\ UNCHANGED <<shared, wvars, files, cvars, m_w, rvars, hist>>
    /\ UNCHANGED fvars

\* lines 395-440: the sleep of line 395 ends and the monitor makes its pass
MonitorPoll ==
    /\ mpc = "sleep"
    /\ ~Booting
    /\ MonitorAfter(Scan(MonitorView, 0))
    /\ UNCHANGED <<is_collecting, is_running, current_batch_id, total_items_collected,
                   total_items_processed, total_items_failed>>
    /\ UNCHANGED <<hb_stale, data_file, cvars, rvars, faults, num_gets>>
    /\ UNCHANGED fvars

\* the put of line 413 resumes once the queue has room, and the pass goes on
MonitorPutResume ==
    /\ mpc = "put"
    /\ ~Booting
    /\ ~Full(work_queue)
    /\ MonitorAfter(Scan(Restart(MonitorPut(MonitorView, m_w), m_w), m_w + 1))
    /\ UNCHANGED <<is_collecting, is_running, current_batch_id, total_items_collected,
                   total_items_processed, total_items_failed>>
    /\ UNCHANGED <<hb_stale, data_file, cvars, rvars, faults, num_gets>>
    /\ UNCHANGED fvars

Monitor ==
    \/ MonitorStart
    \/ MonitorPoll
    \/ MonitorPutResume

\* ---------------------------------------------------------------- run, stop
\* lines 447-458: run() creates the tasks and suspends awaiting the collector
RunStart ==
    /\ rpc = "init"
    /\ cpc' = "start"
    /\ wpc' = [w \in Workers |-> "start"]
    /\ mpc' = "start"
    /\ rpc' = "await_collector"
    /\ UNCHANGED <<shared, workers, hb_stale, worker_tasks, work_item, posts, files,
                   after, item_index, batch_items, m_w, gathered, hist>>
    /\ UNCHANGED fvars

\* lines 458-461: the collector has finished; gather takes the tasks that
\* worker_tasks holds now
RunGather ==
    /\ rpc = "await_collector"
    /\ cpc = "done"
    /\ ~Booting
    /\ gathered' = worker_tasks
    /\ rpc' = "gather"
    /\ UNCHANGED <<shared, wvars, files, cvars, mvars, hist>>
    /\ UNCHANGED fvars

\* the task gather holds for worker id w has finished
GatheredDone(w) == worker_tasks[w] > gathered[w] \/ ~Live(wpc[w])

\* gather without return_exceptions: the first exception of a task ends the wait
GatherReady_raise ==
    \/ \A w \in Workers : GatheredDone(w)
    \/ \E w \in Workers : worker_tasks[w] = gathered[w] /\ wpc[w] = "raised"

\* line 461: gather(..., return_exceptions=True) completes when every task it
\* holds has finished, whether it returned, raised or was cancelled
GatherReady == \A w \in Workers : GatheredDone(w)

\* lines 461-467: every gathered task has finished; the monitor is cancelled
RunReturn ==
    /\ rpc = "gather"
    /\ GatherReady
    /\ mpc' = IF Live(mpc) THEN "cancelled" ELSE mpc
    /\ rpc' = "returned"
    /\ UNCHANGED <<shared, wvars, files, cvars, m_w, gathered, hist>>
    /\ UNCHANGED fvars

\* lines 469-473: stop() clears is_running and cancels the tasks of worker_tasks
\* (a call that finds is_running false and nothing to cancel changes nothing);
\* it runs before run(), before the first step of the tasks or after them
Stop ==
    /\ is_running \/ \E w \in Workers : Live(wpc[w])
    /\ cpc = "start" \/ ~Booting
    /\ is_running' = FALSE
    /\ wpc' = [w \in Workers |-> IF Live(wpc[w]) THEN "cancelled" ELSE wpc[w]]
    /\ work_item' = [w \in Workers |-> IF Live(wpc[w]) THEN None ELSE work_item[w]]
    /\ posts' = [w \in Workers |-> IF Live(wpc[w]) THEN <<>> ELSE posts[w]]
    /\ checkpoint' \in CancelledFiles(wpc')
    /\ UNCHANGED <<work_queue, is_collecting, current_batch_id, total_items_collected,
                   total_items_processed, total_items_failed>>
    /\ UNCHANGED <<workers, hb_stale, worker_tasks, data_file, cvars, mvars, rvars, hist>>
    /\ UNCHANGED fvars

Run ==
    \/ RunStart
    \/ RunGather
    \/ RunReturn

\* ---------------------------------------------------------------- specification
\* a step of a task of the event loop
TaskStep ==
    \/ Collector
    \/ \E w \in Workers : Worker(w)
    \/ Monitor
    \/ Run

Next ==
    \/ TaskStep
    \/ \E w \in Workers : HeartbeatTimeout(w)
    \/ Stop

Spec == Init /\ [][Next]_vars

\* ---------------------------------------------------------------- claims
\* C1: mutual exclusion - no WorkItem is the current_item of two different
\* WorkerStates at the same time
C1_MutualExclusion ==
    \A w1, w2 \in Workers :
        (w1 # w2 /\ workers[w1].current_item # None)
            => workers[w1].current_item # workers[w2].current_item

\* the task of worker w is inside a loop iteration and holds work_item[w]
Holding(w) == wpc[w] \in {"ckpt", "fetch", "save", "requeue"}

\* C2: no item is silently dropped - when a worker leaves the iteration that
\* dequeued an item (stop() apart), the item is in the worker's output, on
\* work_queue, or in the put the monitor is making for that worker
C2_NoSilentDrop ==
    [][\A w \in Workers :
          (Holding(w) /\ ~Holding(w)' /\ is_running')
              => \/ work_item[w].post_id \in Range(posts[w]) \cup Range(posts'[w])
                 \/ work_item[w] \in Range(work_queue')
                 \/ mpc' = "put" /\ m_w' = w]_vars

\* C3: eventual delivery - while an item is on work_queue and stop() was not
\* called, some task can still take a step that changes the state (otherwise
\* the item is never dequeued, whatever the fairness)
C3_EventualDelivery ==
    (is_running /\ work_queue # <<>>) => ENABLED <<TaskStep>>_vars

\* C4: heartbeat recovery - the monitor's poll that finds worker w Working on
\* item X with its heartbeat older than heartbeat_timeout leaves X on
\* work_queue, WorkerState w Idle with current_item None, and a replacement task
\* for w that has not started
C4_HeartbeatRecovery ==
    [][\A w \in Workers :
          (MonitorPoll /\ workers[w].status = "working" /\ hb_stale[w]
              /\ workers[w].current_item # None)
              => /\ workers[w].current_item \in Range(work_queue')
                 /\ workers'[w].status = "idle"
                 /\ workers'[w].current_item = None
                 /\ wpc'[w] = "start"
                 /\ worker_tasks'[w] = worker_tasks[w] + 1]_vars

\* the replacement task of worker id w is past the startup of lines 231-241
PastStartup(w) == wpc[w] \in {"get", "ckpt", "fetch", "save", "requeue", "sleep",
                              "final", "done", "raised"}

\* C5: once the replacement worker of a heartbeat-timeout event is past its
\* startup, the item the timed-out worker held has been put on work_queue
\* exactly once by the monitor and the replacement together
C5_RequeuedOnce ==
    \A w \in Workers :
        (event_puts[w].item # None /\ PastStartup(w)) => event_puts[w].n = 1

\* C6: work_queue never holds more than its capacity, and a task suspended in
\* put still holds the item it could not add
C6_QueueBounded ==
    /\ Len(work_queue) <= QueueCap
    /\ cpc = "put" => batch_items # <<>>
    /\ \A w \in Workers : wpc[w] \in {"recover_put", "requeue"} => work_item[w] # None

\* the collector and a worker are both suspended in put on the full queue
C6_Witness ==
    /\ Full(work_queue)
    /\ cpc = "put"
    /\ \E w \in Workers : wpc[w] = "requeue"

\* C7: backpressure - the collector has completed at most QueueCap puts more
\* than gets were performed, and while no get was performed a collector
\* suspended in put has completed exactly QueueCap puts
C7_Backpressure ==
    /\ total_items_collected <= QueueCap + num_gets
    /\ (num_gets = 0 /\ cpc = "put") =>
           (total_items_collected = QueueCap /\ Len(work_queue) = QueueCap)

\* the collector is suspended in a put beyond its QueueCap-th, having completed
\* exactly QueueCap puts more than the gets performed
C7_Witness ==
    /\ cpc = "put"
    /\ num_gets > 0
    /\ total_items_collected = QueueCap + num_gets

\* C8: checkpoint round trip - once save_checkpoint(w, x) has returned,
\* load_checkpoint(w) gives x in every field; and the startup step that loads a
\* checkpointed item puts exactly that item at the tail of work_queue (or
\* suspends in that put) before the task's first get
C8_RoundTrip ==
    \A w \in Workers :
        wpc[w] \in {"fetch", "save", "requeue"}
            => load_checkpoint(checkpoint[w]) = work_item[w]

C8_StartupPut ==
    \A w \in Workers :
        (wpc[w] = "load" /\ wpc'[w] \notin {"load", "cancelled"}
            /\ load_checkpoint(checkpoint[w]) # None) =>
        LET x == load_checkpoint(checkpoint[w])
            q == Append(work_queue, x)
        IN  \/ /\ Full(work_queue)
               /\ wpc'[w] = "recover_put" /\ work_item'[w] = x
               /\ work_queue' = work_queue
            \/ /\ ~Full(work_queue) /\ is_running
               /\ wpc'[w] = "ckpt" /\ work_item'[w] = Head(q)
               /\ work_queue' = Tail(q)
            \/ /\ ~Full(work_queue) /\ ~is_running
               /\ wpc'[w] = "final"
               /\ work_queue' = q

C9_StopReturns ==
    ~is_running => (rpc = "returned" \/ ENABLED <<TaskStep>>_vars)

\* C10: when run() has returned and stop() was not called, no worker task is
\* still alive
C10_RunAwaitsAll ==
    (rpc = "returned" /\ is_running) => \A w \in Workers : ~Live(wpc[w])

\* C11: when fetch_json_with_retry gave up inside the processing of an item, the
\* step of the worker that follows counts one failure and puts the same item
\* back on work_queue (or suspends in that put), and the task goes on
C11_FailureRequeued ==
    [][\A w \in Workers :
          WorkerFetchNone(w)
              => /\ workers'[w].items_failed = workers[w].items_failed + 1
                 /\ \/ work_item[w] \in Range(work_queue')
                    \/ wpc'[w] = "requeue" /\ work_item'[w] = work_item[w]
                 /\ Live(wpc'[w])]_vars

\* every attempt of the call meets a 429 response
AllRateLimited ==
    /\ Len(f_outcomes) = retries + 1
    /\ \A k \in 1 .. Len(f_outcomes) : f_outcomes[k] = "rate_limited"

RECURSIVE SumSeq(_)
SumSeq(s) == IF s = <<>> THEN 0 ELSE Head(s) + SumSeq(Tail(s))

\* C12: backoff arithmetic - when every attempt meets a 429 response, the k-th
\* sleep lasts backoff * 2^(k-1); when the call returns it has made retries + 1
\* attempts and retries sleeps (none after the last attempt), the sleeps sum to
\* backoff * (2^retries - 1), and the result is None
C12_BackoffArithmetic ==
    AllRateLimited =>
        /\ \A k \in 1 .. Len(f_sleeps) : f_sleeps[k] = backoff * (2 ^ (k - 1))
        /\ Len(f_sleeps) <= retries
        /\ f_pc = "returned" =>
              /\ f_i = retries
              /\ Len(f_sleeps) = retries
              /\ SumSeq(f_sleeps) = backoff * ((2 ^ retries) - 1)
              /\ f_result = "None"

\* the call has returned after 429 responses to all its attempts
C12_Witness == AllRateLimited /\ f_pc = "returned"

\* C13: whatever the attempts meet, fetch_json_with_retry makes at most
\* retries + 1 attempts, no exception leaves it, it can always take its next
\* step until it has returned, and it returns the decoded result when its last
\* attempt met a good response and None otherwise
C13_NeverRaises ==
    /\ f_i <= retries
    /\ f_pc \in {"request", "sleep", "returned"}
    /\ f_pc = "returned" =>
          /\ f_result \in {"json", "None"}
          /\ f_result = "json" <=> f_outcomes[f_i + 1] = "ok"
    /\ f_pc # "returned" => ENABLED <<NextFetch>>_vars

\* the call has returned None after every attempt, the last one included, ended
\* in an exception other than an HTTP status error
C13_Witness ==
    /\ f_pc = "returned"
    /\ f_i = retries
    /\ \A k \in 1 .. (retries + 1) : f_outcomes[k] = "exception"
    /\ f_result = "None"

\* C14: is_collecting is true until run() has created the tasks, and no step
\* sets it back to true once it is false
C14_Monotonic ==
    [](rpc = "init" => is_collecting) /\ [][is_collecting' => is_collecting]_vars

\* is_collecting is false while the collector and a worker still take steps
C14_Witness ==
    /\ ~is_collecting
    /\ cpc = "put"
    /\ \E w \in Workers : Live(wpc[w])

\* C15: in a state where is_collecting is false no step completes a put of the
\* collector
C15_NoPutAfterCollecting ==
    [][~is_collecting => total_items_collected' = total_items_collected]_vars

\* C16: while a worker is in fetch_post_details for item X, the checkpoint file
\* of its worker id is the checkpoint save_checkpoint wrote for X; the write
\* comes after the dequeue of X and overwrites whatever the file held
C16_CheckpointFirst ==
    /\ [](\A w \in Workers :
            wpc[w] = "fetch"
                => /\ work_item[w] # None
                   /\ checkpoint[w].kind = "json"
                   /\ checkpoint[w].worker_id = w
                   /\ checkpoint[w].current_item = asdict(work_item[w]))
    /\ [][\A w \in Workers :
            wpc'[w] = "fetch" /\ wpc[w] # "fetch"
                => /\ wpc[w] = "ckpt"
                   /\ work_item'[w] = work_item[w]
                   /\ workers[w].current_item = work_item[w]]_vars

\* a worker is processing a second item: the checkpoint of the first one has
\* been replaced
C16_Witness ==
    \E w \in Workers :
        /\ wpc[w] = "fetch"
        /\ workers[w].items_processed > 0
        /\ Len(posts[w]) > 0
        /\ work_item[w].post_id \notin Range(posts[w])

\* the task installed for worker id w ends in this step: it returns, or it is
\* cancelled by stop() or by the monitor (which may replace it at once)
TaskEnds(w) ==
    /\ Live(wpc[w])
    /\ \/ wpc'[w] \in {"done", "cancelled"}
       \/ worker_tasks'[w] # worker_tasks[w]

\* C17: when a worker task ends holding results, the worker's data file holds
\* those results
C17_FinalSaveOnExit ==
    [][\A w \in Workers :
          (TaskEnds(w) /\ posts[w] # <<>>) => data_file'[w] = posts[w]]_vars

\* a step in which the task of worker w is cancelled
Cancelled(w) ==
    /\ Live(wpc[w])
    /\ \/ ~is_running'
       \/ mpc' = "put" /\ m_w' = w /\ wpc'[w] = "cancelled"
       \/ worker_tasks'[w] # worker_tasks[w]

\* C18 (amended): an ordinary exception in the loop body never ends the worker
\* task - an exception of save_checkpoint sets status Failed and the task
\* sleeps, an exception of the processing block is handled by the re-enqueue
\* handler; the task leaves the loop only when is_running is false or when
\* collection is finished and the queue is empty, and it ends otherwise only by
\* cancellation
C18_ExceptionsSurvived ==
    [][\A w \in Workers :
          /\ WorkerCheckpointError(w)
                => workers'[w].status = "failed" /\ wpc'[w] = "sleep"
          /\ (WorkerFetchError(w) \/ WorkerSaveError(w))
                => wpc'[w] \in {"sleep", "requeue"}
          /\ (wpc'[w] = "final" /\ wpc[w] # "final" /\ ~Cancelled(w))
                => ~is_running \/ (~is_collecting /\ work_queue = <<>>)
          /\ (Live(wpc[w]) /\ ~Live(wpc'[w]))
                => wpc[w] = "final" \/ Cancelled(w)]_vars

\* a worker that met an exception of save_checkpoint is marked Failed and its
\* task is alive, asleep before its next iteration
C18_Witness ==
    \E w \in Workers :
        /\ workers[w].status = "failed"
        /\ wpc[w] = "sleep"
        /\ is_running

\* C18 as stated: every ordinary exception in the loop body sets status Failed
\* and leaves the task alive
C18_AlwaysFailed ==
    [][\A w \in Workers :
          (WorkerCheckpointError(w) \/ WorkerFetchError(w) \/ WorkerSaveError(w))
              => workers'[w].status = "failed" /\ Live(wpc'[w])]_vars

\* C19: the step in which one worker task ends with an exception changes no
\* other task and not run(); the monitor cancels only tasks whose own heartbeat
\* is stale; run() returns only when every task it gathered has finished, and
\* it can return once they all have
C19_FailureIsolated ==
    /\ [](rpc = "returned"
            => \A w \in Workers : worker_tasks[w] = gathered[w] => ~Live(wpc[w]))
    /\ []((rpc = "gather" /\ \A w \in Workers : ~Live(wpc[w]))
            => ENABLED <<RunReturn>>_vars)
    /\ [][\A w \in Workers :
            /\ WorkerFinalSaveError(w)
                  => /\ \A v \in Workers \ {w} : wpc'[v] = wpc[v]
                     /\ rpc' = rpc
                     /\ work_queue' = work_queue
            /\ ((MonitorPoll \/ MonitorPutResume) /\ Live(wpc[w])
                   /\ (wpc'[w] = "cancelled" \/ worker_tasks'[w] # worker_tasks[w]))
                  => workers[w].status = "working" /\ hb_stale[w]]_vars

\* run() is waiting in gather and stop() was not called: one of the gathered
\* tasks has ended with an exception and another is still running
C19_Witness ==
    /\ rpc = "gather"
    /\ is_running
    /\ \E w, v \in Workers :
          /\ wpc[w] = "raised" /\ worker_tasks[w] = gathered[w]
          /\ Live(wpc[v]) /\ worker_tasks[v] = gathered[v]

\* C20: the step in which the collector meets a malformed listing response ends
\* the collector only (is_collecting false, queue and workers untouched); after
\* it, while stop() is not called and no other fault occurs, some task can take
\* a step until run() has returned, and then the queue is empty, every collected
\* item was processed and every worker has exited through its final save
C20_MalformedStopsProducerOnly ==
    /\ [][CollectorMalformed
            => /\ ~is_collecting' /\ cpc' = "done"
               /\ work_queue' = work_queue
               /\ wpc' = wpc /\ workers' = workers]_vars
    /\ []((faults.malformed > 0 /\ faults.error + faults.other = 0 /\ is_running)
            => /\ rpc # "returned" => ENABLED <<TaskStep>>_vars
               /\ (\A w \in Workers : ~Live(wpc[w]))
                     => /\ work_queue = <<>>
                        /\ total_items_processed = total_items_collected
                        /\ \A w \in Workers :
                              wpc[w] = "done" /\ workers[w].status = "completed")

\* the collector stopped on a malformed response after it had put items, the
\* workers processed them all and run() has returned
C20_Witness ==
    /\ faults.malformed > 0
    /\ faults.error + faults.other = 0
    /\ is_running
    /\ rpc = "returned"
    /\ total_items_collected > 0
    /\ total_items_processed = total_items_collected

\* C21: the monitor never blocks on the queue - whenever it is suspended in the
\* put of the stuck item (line 413) the wait can end: some task of the event
\* loop can still take a step, so the pass returns to its poll
C21_MonitorNeverBlocks ==
    mpc = "put" => ENABLED <<TaskStep>>_vars

\* ---------------------------------------------------------------- jobs sharing checkpoints/
\* an item of an earlier job: its post is not of this job's listing
PriorItem == WorkItem(NumPosts + 1, NumPosts + 1, TargetDate, 0, 1, 0)

\* checkpoints/worker_<id>_checkpoint.json as earlier jobs run in the same
\* working directory left it (line 88: the path holds no job id, and no code
\* removes the file): absent, or the checkpoint of the item that job's worker
\* <id> took last
PriorCheckpoints ==
    {f \in [Workers -> {NoFile} \cup {CheckpointOf(w, PriorItem, WorkerState(w)) : w \in Workers}] :
        \A w \in Workers : f[w] = NoFile \/ f[w].worker_id = w}

InitJobs ==
    /\ \E checkpoints \in PriorCheckpoints : InitOver(checkpoints)
    /\ FetchIdle

SpecJobs == InitJobs /\ [][Next]_vars

\* C22: checkpoints are addressed by (job id, worker id) - a worker recovers at
\* startup only an item that a worker of its own job checkpointed, so every item
\* on the queue or in a worker's hands is an item this job collected
C22_CheckpointPerJob ==
    /\ \A n \in 1 .. Len(work_queue) : work_queue[n].post_id \in 1 .. NumPosts
    /\ \A w \in Workers : work_item[w] # None => work_item[w].post_id \in 1 .. NumPosts

\* workers suspended in the put of line 293
RequeuePending == {w \in Workers : wpc[w] = "requeue"}

\* C23: the aggregate counters lose no update under any interleaving -
\* total_items_processed is the number of results appended to worker outputs,
\* total_items_failed is the number of failure handlers run (lines 287-295);
\* each handler starts one re-enqueue, which is counted before its put and may
\* be suspended on a full queue or cut off by a cancellation
C23_NoLostUpdates ==
    /\ total_items_processed = tally.appended
    /\ total_items_failed = tally.handled
    /\ tally.requeued + Cardinality(RequeuePending) <= total_items_failed

\* a result was appended, a failure was counted and its re-enqueue is suspended
C23_Witness ==
    /\ tally.appended > 0
    /\ tally.handled > tally.requeued
    /\ RequeuePending # {}

\* C23 as stated: total_items_failed is the number of failure re-enqueues that
\* workers have performed
C23_FailedEqualsRequeues ==
    /\ total_items_processed = tally.appended
    /\ total_items_failed = tally.requeued

\* C24: a worker leaves its loop for the final save and the Completed status
\* only at a get timeout that finds collection finished and the queue empty
\* (on any other timeout it keeps looping), and a Completed status never changes
C24_CompletedOnlyWhenDrained ==
    /\ [][\A w \in Workers :
            (wpc[w] # "final" /\ wpc'[w] = "final")
               => (wpc[w] = "get" /\ ~is_collecting /\ work_queue = <<>>)]_vars
    /\ [][\A w \in Workers :
            (workers[w].status # "completed" /\ workers'[w].status = "completed")
               => wpc[w] = "final"]_vars
    /\ [][\A w \in Workers :
            workers[w].status = "completed" => workers'[w].status = "completed"]_vars

\* C25: after the failure handler has put the item back the WorkerState goes
\* from Working to Idle with no current_item before the worker waits for its
\* next item - a worker suspended in get never shows the status Working
C25_IdleAfterRequeue ==
    \A w \in Workers : wpc[w] = "get" => workers[w].status # "working"

\* C26: the monitor stays active as long as work may remain - once run() has
\* created the tasks and while is_running holds, if collection is not finished,
\* the queue is non-empty or some worker is Working, the monitor task has
\* neither left its loop nor been cancelled
C26_MonitorActive ==
    (/\ rpc # "init"
     /\ is_running
     /\ \/ is_collecting
        \/ work_queue # <<>>
        \/ \E w \in Workers : workers[w].status = "working")
       => mpc \notin {"done", "cancelled"}

SameCounters(w) ==
    /\ workers'[w].items_processed = workers[w].items_processed
    /\ workers'[w].items_failed = workers[w].items_failed

\* C28: a forced restart changes only status and current_item of the
\* WorkerState - a pass of the monitor writes no counter and no heartbeat, and
\* the first step of the replacement task leaves items_processed and
\* items_failed of its worker id as they were before the restart
C28_RestartKeepsCounters ==
    /\ [][(MonitorPoll \/ MonitorPutResume)
            => (hb_stale' = hb_stale /\ \A w \in Workers : SameCounters(w))]_vars
    /\ [][\A w \in Workers :
            (wpc[w] = "start" /\ worker_tasks[w] > 0 /\ wpc'[w] # "start")
               => SameCounters(w)]_vars

\* C29: on a transient error other than a rate limit (an HTTP error status
\* other than 429, a network exception) fetch_json_with_retry sleeps a fixed
\* interval and retries - it returns None only after the attempt of index
\* `retries`, and the sleep after each such error lasts 1 s
C29_TransientRetried ==
    /\ (f_pc = "returned" /\ f_result = "None") => f_i = retries
    /\ \A n \in 1 .. Len(f_sleeps) :
          f_outcomes[n] \in {"http_error", "exception"} => f_sleeps[n] = 1

\* the pages a listing can return: up to PageSize records in any order
Pages == UNION {[1 .. n -> 1 .. NumPosts] : n \in 0 .. PageSize}

\* the position of the first record of the page older than the target date,
\* Len(ps) + 1 when it has none
FirstOld(ps) ==
    LET old == {i \in 1 .. Len(ps) : CreatedUtc(ps[i]) < TargetDate} IN
    IF old = {} THEN Len(ps) + 1
    ELSE CHOOSE i \in old : \A j \in old : i <= j

\* C30: the collector's stop condition - from a page it builds a WorkItem for
\* each record before the first one older than the target date and for none
\* from that record on; the step that handles a fetched page hands exactly these
\* items to the queue and clears is_collecting when it met an old record, and
\* all of them are put before the collector goes on; once is_collecting is
\* false no further page is fetched; no item older than the target date is
\* ever queued or waiting to be put
C30_StopCondition ==
    /\ [](\A ps \in Pages :
            LET b == BatchOf(ps, current_batch_id, item_index) IN
            /\ Len(b) = FirstOld(ps) - 1
            /\ \A i \in 1 .. Len(b) :
                  b[i].post_id = ps[i] /\ b[i].created_utc = CreatedUtc(ps[i]))
    /\ [][CollectorFetched
            => LET ps == PagePosts(IF after = 0 THEN 1 ELSE after)
                   n == FirstOld(ps) - 1
                   all == work_queue' \o batch_items'
               IN /\ Len(all) = Len(work_queue) + n
                  /\ \A i \in 1 .. n : all[Len(work_queue) + i].post_id = ps[i]
                  /\ n < Len(ps) => ~is_collecting']_vars
    /\ [](cpc # "put" => batch_items = <<>>)
    /\ [](~is_collecting => cpc \in {"put", "done"})
    /\ [][~is_collecting => (after' = after /\ item_index' = item_index)]_vars
    /\ [](\A i \in 1 .. Len(work_queue) : work_queue[i].created_utc >= TargetDate)
    /\ [](\A i \in 1 .. Len(batch_items) : batch_items[i].created_utc >= TargetDate)

\* the collector met the old record on the last page, after it had put every
\* newer record of the listing, and has finished
C30_Witness ==
    /\ cpc = "done"
    /\ is_running
    /\ faults.error + faults.other + faults.malformed = 0
    /\ after = 0
    /\ total_items_collected = NumPosts - 1

\* the puts a step performs, whoever performs them
Puts == Len(work_queue') + (num_gets' - num_gets) - Len(work_queue)

\* C31: a stale checkpoint is ignored at recovery - when the task of a worker
\* has read a checkpoint whose item already has a successful result, it does
\* not put that item on the queue and does not wait to put it
C31_StaleCheckpointIgnored ==
    [][\A w \in Workers :
         (WorkerLoaded(w) /\ load_checkpoint(checkpoint[w]).post_id \in tally.results)
            => (Puts = 0 /\ wpc'[w] # "recover_put")]_vars

\* the task installed for worker id w cannot take an item off the queue before
\* the queue gets room: it is suspended in a put, or it was cancelled by the
\* monitor, which is itself suspended in the put of its item
BlockedInPut(w) ==
    \/ wpc[w] \in {"requeue", "recover_put"}
    \/ wpc[w] = "cancelled" /\ mpc = "put" /\ m_w = w

\* C32: deadlock freedom - while is_running holds, the queue is never full with
\* every task that could free queue space (the worker tasks) suspended in put
\* on it
C32_DeadlockFree ==
    is_running => ~(Full(work_queue) /\ \A w \in Workers : BlockedInPut(w))

\* C33: the results a worker id has persisted are never lost - every save of
\* worker id w that completes (line 285 or 313) writes a posts list that
\* contains every result the file of w held before, also when the task that
\* saves is a replacement
C33_SavedResultsKept ==
    [][\A w \in Workers :
         (WorkerSaved(w) \/ WorkerFinalSaved(w))
            => Range(data_file[w]) \subseteq Range(data_file'[w])]_vars

\* C34: a WorkerState holds a current_item only while its status is Working -
\* a worker that is Idle, Failed or Completed has current_item None
C34_ItemOnlyWhileWorking ==
    \A w \in Workers :
        workers[w].current_item # None => workers[w].status = "working"

\* C35: after stop() no new worker task is created and no item is put on the
\* queue - in particular a pass of the monitor that completes after stop()
\* neither restarts a worker nor re-enqueues an item
C35_QuietAfterStop ==
    /\ [][~is_running => (worker_tasks' = worker_tasks /\ Puts = 0)]_vars
    /\ [][(~is_running /\ (MonitorPoll \/ MonitorPutResume))
            => (worker_tasks' = worker_tasks /\ work_queue' = work_queue)]_vars

RECURSIVE SumOver(_, _)
SumOver(f, S) ==
    IF S = {} THEN 0
    ELSE LET w == CHOOSE v \in S : TRUE IN f[w] + SumOver(f, S \ {w})

\* C36: counter consistency - the items_processed of the registered
\* WorkerStates add up to total_items_processed and their items_failed to
\* total_items_failed, and no step lowers a counter of a worker id
C36_CounterConsistency ==
    /\ [](SumOver([w \in Workers |-> workers[w].items_processed], Workers)
             = total_items_processed)
    /\ [](SumOver([w \in Workers |-> workers[w].items_failed], Workers)
             = total_items_failed)
    /\ [][\A w \in Workers :
            /\ workers'[w].items_processed >= workers[w].items_processed
            /\ workers'[w].items_failed >= workers[w].items_failed]_vars

CursorPage == IF after = 0 THEN 1 ELSE after

\* C38: the collector never skips a page - whenever it is about to fetch, every
\* record of the pages before its cursor has been put on the queue; a fetch
\* that fails and a page whose handling raises leave the cursor where it was;
\* and while collection goes on the cursor never falls back to the first page
C38_NoPageSkipped ==
    /\ [](cpc \in {"fetch", "sleep"}
            => total_items_collected = (CursorPage - 1) * PageSize)
    /\ [][(CollectorFetchFailed \/ CollectorPageError) => after' = after]_vars
    /\ [][(after # 0 /\ is_collecting') => after' # 0]_vars

\* line 77: self.heartbeat_timeout = 30.0 (seconds)
heartbeat_timeout == 30

\* line 250: httpx.AsyncClient(..., timeout=30.0), the seconds an attempt of
\* client.get may take before httpx raises a timeout exception
timeout == 30

\* the longest a call of fetch_json_with_retry that is in its attempt of index i
\* can have taken: every attempt as long as the client allows, plus the sleeps
LongestElapsed(i, sleeps) == (i + 1) * timeout + SumSeq(sleeps)

\* C39: no false-positive restart - the longest time a healthy worker spends on
\* one item between two heartbeat refreshes (up to retries + 1 attempts of at
\* most the client timeout each, plus the backoff sleeps) does not exceed
\* heartbeat_timeout
C39_NoFalsePositiveRestart ==
    f_pc = "returned" => LongestElapsed(f_i, f_sleeps) <= heartbeat_timeout

====
